---- MODULE Spec2Model ----
(***************************************************************************)
(* Route-segment algebra of the transit pipeline:                          *)
(*   3_simplified_trip.py      duration codec (int), simplify_trip         *)
(*   4_ascending_descending.py duration codec (float), split_route_in_half *)
(*   5_transfer_counting.py    extract_transitions                         *)
(*                                                                         *)
(* Encoding of strings.  A route string is a sequence of tokens, one per   *)
(* "->"-separated step.  A token is [mode, dur, form]; mode is the text in  *)
(* front of the parenthesis, dur is the text between                       *)
(* the parentheses, kept as written: [h, m, f] where h is the number in    *)
(* front of the hour marker, m the integer digits of the number in front   *)
(* of the minute marker and f its single digit after the decimal point;    *)
(* each is Absent when that piece is not in the text.  "1시간 8분" is       *)
(* [h |-> 1, m |-> 8, f |-> Absent], "2.5분" is [h |-> Absent, m |-> 2,     *)
(* f |-> 5], "3.0분" is [h |-> Absent, m |-> 3, f |-> 0].  The sentinel     *)
(* "N/A" is the token NAToken, which has no parenthesised duration.        *)
(* form tells how the token is written around its duration text:           *)
(*   "plain"     mode(text)       bus(6분)                                  *)
(*   "spaced"    mode (text)      bus (6분)   a blank before the parenthesis *)
(*   "prefixed"  mode(약 text)    bus(약 6분)  a word before the first digit  *)
(*   "unmarked"  mode(number)     bus(5)      the number m without a marker *)
(*   "unclosed"  mode(text        bus(6분     no closing parenthesis         *)
(* A token with mode NoMode starts at its parenthesis: (6분).               *)
(* Two strings are equal exactly when their token sequences are equal.     *)
(*                                                                         *)
(* Python indexes from 0, sequences here from 1: index i of the source is  *)
(* i + 1 here.                                                             *)
(***************************************************************************)
EXTENDS Integers, Sequences, FiniteSets, TLC

\* ------------------------------------------------------------------------
\* Bounds of the exploration
MaxLen == 3
Passes == 2
MaxRows == 2
MaxMinutes == 130
MaxHours == 2

\* ------------------------------------------------------------------------
\* Strings

Absent == -1
NoMode == ""

DurText(h, m, f) == [h |-> h, m |-> m, f |-> f]
NoDuration == DurText(Absent, Absent, Absent)

FormToken(mode, dur, form) == [mode |-> mode, dur |-> dur, form |-> form]
Token(mode, dur) == FormToken(mode, dur, "plain")
NAToken == Token("N/A", NoDuration)

\* A step that has no parenthesised duration, such as "stop".
JunkToken == Token("stop", NoDuration)

\* The missing value of a cell (float NaN, None): not a string.  It is
\* written as a value of its own, different from every string of the inputs.
NaNValue == << Token("nan", NoDuration) >>

Modes == {"walking", "bus", "subway"}

\* "0분", "5분", "30분", "1시간", "1시간 0분", "2.5분"
SimplifyTexts ==
    { DurText(Absent, 0, Absent), DurText(Absent, 5, Absent),
      DurText(Absent, 30, Absent), DurText(1, Absent, Absent),
      DurText(1, 0, Absent), DurText(Absent, 2, 5) }

SimplifyTokens == { Token(md, t) : md \in Modes, t \in SimplifyTexts } \cup {JunkToken}

\* "0분", "6분", "7분", "2시간"
SplitTexts ==
    { DurText(Absent, 0, Absent), DurText(Absent, 6, Absent),
      DurText(Absent, 7, Absent), DurText(2, Absent, Absent) }

SplitTokens == { Token(md, t) : md \in Modes, t \in SplitTexts } \cup {JunkToken}

\* "walking(7분) -> subway(6분) -> walking(6분)"
ScenarioB ==
    << Token("walking", DurText(Absent, 7, Absent)), Token("subway", DurText(Absent, 6, Absent)),
       Token("walking", DurText(Absent, 6, Absent)) >>

\* "walking(7분) -> subway(2.5분)" and "subway(3.5분) -> walking(6분)"
ScenarioBAscending ==
    << Token("walking", DurText(Absent, 7, Absent)), Token("subway", DurText(Absent, 2, 5)) >>
ScenarioBDescending ==
    << Token("subway", DurText(Absent, 3, 5)), Token("walking", DurText(Absent, 6, Absent)) >>

\* "walking(5분) -> bus(15분) -> walking(3분) -> subway(20분) -> walking(2분)"
ScenarioA ==
    << Token("walking", DurText(Absent, 5, Absent)), Token("bus", DurText(Absent, 15, Absent)),
       Token("walking", DurText(Absent, 3, Absent)), Token("subway", DurText(Absent, 20, Absent)),
       Token("walking", DurText(Absent, 2, Absent)) >>

\* "walking(5분) -> bus(18분) -> subway(20분) -> walking(2분)"
ScenarioAResult ==
    << Token("walking", DurText(Absent, 5, Absent)), Token("bus", DurText(Absent, 18, Absent)),
       Token("subway", DurText(Absent, 20, Absent)), Token("walking", DurText(Absent, 2, Absent)) >>

RECURSIVE SumSeq(_)
SumSeq(s) == IF s = <<>> THEN 0 ELSE Head(s) + SumSeq(Tail(s))

RECURSIVE SeqsUpTo(_, _)
SeqsUpTo(S, n) ==
    IF n = 0 THEN { <<>> }
    ELSE LET shorter == SeqsUpTo(S, n - 1)
         IN  shorter \cup { Append(s, x) : s \in { q \in shorter : Len(q) = n - 1 }, x \in S }

\* ------------------------------------------------------------------------
\* Integer duration codec (3_simplified_trip.py)

convert_time_to_minutes_minutes_only(time_str) ==
    IF time_str.m # Absent THEN time_str.m
    ELSE IF time_str.h # Absent THEN time_str.h * 60 ELSE 0

\* int(hours * 60 + minutes): hours is the integer before the hour marker,
\* minutes the float before the minute marker; int() truncates.  Computed
\* in tenths of a minute.
convert_time_to_minutes(time_str) ==
    LET hours   == IF time_str.h # Absent THEN time_str.h ELSE 0
        tenths  == IF time_str.m # Absent
                   THEN time_str.m * 10 + (IF time_str.f # Absent THEN time_str.f ELSE 0)
                   ELSE 0
    IN  (hours * 600 + tenths) \div 10

convert_minutes_to_time_both_clauses(minutes) ==
    DurText(minutes \div 60, minutes % 60, Absent)

convert_minutes_to_time(minutes) ==
    LET hours == minutes \div 60
        mins  == minutes % 60
    IN  IF hours > 0 /\ mins > 0 THEN DurText(hours, mins, Absent)
        ELSE IF hours > 0 THEN DurText(hours, Absent, Absent)
        ELSE DurText(Absent, mins, Absent)

\* ------------------------------------------------------------------------
\* simplify_trip (3_simplified_trip.py)

\* The token has an opening parenthesis, a closing one.
HasOpen(tok) == tok.dur # NoDuration
HasClose(tok) == tok.dur # NoDuration /\ tok.form # "unclosed"

\* \w+\(\d+ : word characters, directly followed by a parenthesis, directly
\* followed by a digit.
OpensSegment(tok) ==
    /\ tok.mode # NoMode
    /\ HasOpen(tok)
    /\ tok.form \in {"plain", "unmarked", "unclosed"}

\* re.findall(r'(\w+\(\d+\.?\d*[^\)]+\))', trip) on one token: a token is a
\* segment when a parenthesised text starting with a number follows its mode
\* and at least one character follows the first digit of the number: a
\* number without marker matches only if it has two digits or more.
IsSegment(tok) ==
    /\ OpensSegment(tok)
    /\ \/ tok.form = "plain"
       \/ tok.form = "unmarked" /\ tok.dur.m >= 10

\* The first token from index j on that has a closing parenthesis, 0 if none.
FirstClose(str, j) ==
    LET closing == { x \in j .. Len(str) : HasClose(str[x]) }
    IN  IF closing = {} THEN 0 ELSE CHOOSE x \in closing : \A y \in closing : x <= y

\* The text between the first parenthesis and the last one of a match that
\* runs over several tokens, as the codec reads it: its first hour marker and
\* its first minute marker.
RunTime(run) ==
    LET marked == SelectSeq(run, LAMBDA tok : tok.form # "unmarked")
        hs == SelectSeq(marked, LAMBDA tok : tok.dur.h # Absent)
        ms == SelectSeq(marked, LAMBDA tok : tok.dur.m # Absent)
    IN  DurText(IF hs = <<>> THEN Absent ELSE hs[1].dur.h,
                IF ms = <<>> THEN Absent ELSE ms[1].dur.m,
                IF ms = <<>> THEN Absent ELSE ms[1].dur.f)

\* A match of the pattern that starts in an unclosed token: [^\)]+ runs over
\* the arrows up to the first closing parenthesis of the string.
RunSegment(run) ==
    [mode |-> run[1].mode, dur |-> RunTime(run), form |-> "run", text |-> run]

\* The matches of the pattern from token j on, from left to right, each
\* match resuming after the one before.
RECURSIVE FindSegmentsFrom(_, _)
FindSegmentsFrom(trip, j) ==
    IF j > Len(trip) THEN <<>>
    ELSE IF IsSegment(trip[j]) THEN << trip[j] >> \o FindSegmentsFrom(trip, j + 1)
    ELSE IF OpensSegment(trip[j]) /\ trip[j].form = "unclosed" /\ FirstClose(trip, j + 1) # 0
    THEN << RunSegment(SubSeq(trip, j, FirstClose(trip, j + 1))) >>
             \o FindSegmentsFrom(trip, FirstClose(trip, j + 1) + 1)
    ELSE FindSegmentsFrom(trip, j + 1)

FindSegments(trip) == FindSegmentsFrom(trip, 1)

\* re.match(r'(\w+)\((.+)\)', segment): the time text of a segment; a number
\* without marker is a text in which the codec finds no marker.
TimeOf(segment) == IF segment.form = "unmarked" THEN NoDuration ELSE segment.dur

\* The string of a segment.
TextOf(segment) == IF segment.form = "run" THEN segment.text ELSE << segment >>

KeepWalkingFirstOnly(i, n) == i = 1

\* i == 0 or i == len(segments) - 1
KeepWalking(i, n) == i = 1 \/ i = n

SameModeNever(mode, cur) == FALSE

\* mode == current_mode
SameMode(mode, cur) == mode = cur

FlushNever(st) == st.processed_segments

\* processed_segments after "if current_mode: append(current_mode(total))"
Flush(st) ==
    IF st.current_mode # NoMode
    THEN Append(st.processed_segments,
                Token(st.current_mode, convert_minutes_to_time(st.total_time)))
    ELSE st.processed_segments

AfterWalkingKeepsMode(st, out) ==
    [processed_segments |-> out, total_time |-> 0, current_mode |-> st.current_mode]

\* current_mode = None; total_time = 0 after a kept walking segment
AfterWalking(st, out) ==
    [processed_segments |-> out, total_time |-> 0, current_mode |-> NoMode]

SimplifyIterDropsWalking(st, i, segs) ==
    LET segment == segs[i]
        mode    == segment.mode
        time    == TimeOf(segment)
    IN  IF mode = "walking"
        THEN IF KeepWalking(i, Len(segs))
             THEN AfterWalking(st, Flush(st) \o TextOf(segment))
             ELSE st
        ELSE IF SameMode(mode, st.current_mode)
             THEN [st EXCEPT !.total_time = @ + convert_time_to_minutes(time)]
             ELSE [processed_segments |-> Flush(st),
                   total_time         |-> convert_time_to_minutes(time),
                   current_mode       |-> mode]

\* One iteration of the for loop on segment i, from the loop state st.
SimplifyIter(st, i, segs) ==
    LET segment == segs[i]
        mode    == segment.mode
        time    == TimeOf(segment)
    IN  IF mode = "walking"
        THEN IF KeepWalking(i, Len(segs))
             THEN AfterWalking(st, Flush(st) \o TextOf(segment))
             ELSE [st EXCEPT !.total_time = @ + convert_time_to_minutes(time)]
        ELSE IF SameMode(mode, st.current_mode)
             THEN [st EXCEPT !.total_time = @ + convert_time_to_minutes(time)]
             ELSE [processed_segments |-> Flush(st),
                   total_time         |-> convert_time_to_minutes(time),
                   current_mode       |-> mode]

\* ------------------------------------------------------------------------
\* Float duration codec and split_route_in_half (4_ascending_descending.py)
\*
\* Float minutes are counted in halves of a minute: the value v stands for
\* v / 2 minutes.  parse_duration_to_minutes returns whole minutes, and the
\* only other operations are sums, differences and total / 2.0, so every
\* float of a run is a multiple of 0.5 and is represented exactly.

PerMinute == 2

\* hours_pattern (\d+)\s*시간 and mins_pattern (\d+)\s*분: the digits directly
\* in front of each marker, which for "2.5분" are the digits after the point.
parse_duration_to_minutes(duration_str) ==
    LET hours == IF duration_str.h # Absent THEN duration_str.h ELSE 0
        mins  == IF duration_str.m = Absent THEN 0
                 ELSE IF duration_str.f # Absent THEN duration_str.f
                 ELSE duration_str.m
    IN  (hours * 60 + mins) * PerMinute

\* The text of a float of minutes m in an f-string: "2.5", "3.0".
FloatText(h, m) == DurText(h, m \div PerMinute, 5 * (m % PerMinute))

format_minutes_to_string_truncating(minutes) ==
    LET h == minutes \div (60 * PerMinute)
        m == (minutes % (60 * PerMinute)) \div PerMinute
    IN  IF h > 0 /\ m > 0 THEN DurText(h, m, Absent)
        ELSE IF h > 0 THEN DurText(h, Absent, Absent)
        ELSE DurText(Absent, m, Absent)

format_minutes_to_string(minutes) ==
    LET h == minutes \div (60 * PerMinute)
        m == minutes % (60 * PerMinute)
    IN  IF h > 0 /\ m > 0 THEN FloatText(h, m)
        ELSE IF h > 0 THEN DurText(h, Absent, Absent)
        ELSE FloatText(Absent, m)

\* Lines 120-130: each step with its minutes; a step without a parenthesised
\* text counts 0 minutes, as does a text without markers.
\* re.search(r"\(([^)]+)\)", step) on a step needs both parentheses, whatever
\* stands in front of them or behind the opening one; the markers are then
\* searched for in the text, and a number without marker has none.
MinutesOfStep(step) ==
    IF HasClose(step) /\ step.form # "unmarked"
    THEN parse_duration_to_minutes(step.dur)
    ELSE 0

StepsWithMinutes(route) ==
    [ j \in 1 .. Len(route) |-> << route[j], MinutesOfStep(route[j]) >> ]

TotalMinutes(steps) == SumSeq([ j \in 1 .. Len(steps) |-> steps[j][2] ])

Abs(x) == IF x < 0 THEN -x ELSE x

\* 1e-9 is 1 / EpsilonInverse
EpsilonInverse == 1000000000

AtMidpointAlways(reached, half) == TRUE

AtMidpointNever(reached, half) == FALSE

\* abs(accumulated + dur_min - half_time) < 1e-9.  In halves of a minute
\* that is d * EpsilonInverse < PerMinute for the integer d = |difference|,
\* which is d <= (PerMinute - 1) \div EpsilonInverse.
AtMidpoint(reached, half) ==
    Abs(reached - half) <= (PerMinute - 1) \div EpsilonInverse

DescendingPartOfRemain(dur_min, remain_to_half) == remain_to_half

DescendingPartWhole(dur_min, remain_to_half) == dur_min

\* descending_part = dur_min - remain_to_half
DescendingPart(dur_min, remain_to_half) == dur_min - remain_to_half

BeforeMidpointOfTotal(reached, half) == reached < 2 * half

BeforeMidpointOrAt(reached, half) == reached <= half

\* accumulated + dur_min < half_time
BeforeMidpoint(reached, half) == reached < half

\* One iteration of the loop of lines 139-179 on the step stp, from the loop
\* state st = [ascending, descending, accumulated, half_reached].
SplitIter(st, stp, half_time) ==
    LET step_text == stp[1]
        dur_min   == stp[2]
    IN  IF st.half_reached
        THEN [st EXCEPT !.descending = Append(@, << step_text, dur_min >>)]
        ELSE IF BeforeMidpoint(st.accumulated + dur_min, half_time)
        THEN [st EXCEPT !.ascending = Append(@, << step_text, dur_min >>),
                        !.accumulated = @ + dur_min]
        ELSE IF AtMidpoint(st.accumulated + dur_min, half_time)
        THEN [st EXCEPT !.ascending = Append(@, << step_text, dur_min >>),
                        !.accumulated = @ + dur_min,
                        !.half_reached = TRUE]
        ELSE LET remain_to_half == half_time - st.accumulated
             IN  IF remain_to_half < 0
                 THEN [st EXCEPT !.descending = Append(@, << step_text, dur_min >>),
                                 !.half_reached = TRUE]
                 ELSE LET ascending_part  == remain_to_half
                          descending_part == DescendingPart(dur_min, remain_to_half)
                          base_name       == step_text.mode
                          ascend_text  == Token(base_name, format_minutes_to_string(ascending_part))
                          descend_text == Token(base_name, format_minutes_to_string(descending_part))
                      IN  [st EXCEPT
                             !.ascending = Append(@, << ascend_text, ascending_part >>),
                             !.descending = IF descending_part > 0
                                            THEN Append(@, << descend_text, descending_part >>)
                                            ELSE @,
                             !.half_reached = TRUE]

\* " -> ".join(stp[0] for stp in half)
JoinSteps(half) == [ j \in 1 .. Len(half) |-> half[j][1] ]

\* The sentinel string "N/A"
NAString == << NAToken >>

\* ------------------------------------------------------------------------
\* extract_transitions (5_transfer_counting.py)

\* re.findall(r'(\w+)\(\d+.*?\)', row): the modes of the steps that carry a
\* parenthesised text starting with a number.
\* The pattern needs word characters, directly followed by a parenthesis,
\* directly followed by a digit; .*? then runs to the first closing
\* parenthesis, over the arrows if the token has none, and the next match is
\* searched for behind it.
RECURSIVE FindModesFrom(_, _)
FindModesFrom(row, j) ==
    IF j > Len(row) THEN <<>>
    ELSE IF OpensSegment(row[j]) /\ HasClose(row[j])
    THEN << row[j].mode >> \o FindModesFrom(row, j + 1)
    ELSE IF OpensSegment(row[j]) /\ FirstClose(row, j + 1) # 0
    THEN << row[j].mode >> \o FindModesFrom(row, FirstClose(row, j + 1) + 1)
    ELSE FindModesFrom(row, j + 1)

FindModes(row) == FindModesFrom(row, 1)

TransitionReversed(from, to) == << to, from >>

\* f"{modes[i]} -> {modes[i+1]}"
Transition(from, to) == << from, to >>

IncrementSetsOne(counts, key) ==
    IF key \in DOMAIN counts THEN [counts EXCEPT ![key] = 1] ELSE counts @@ (key :> 1)

\* transition_counts[transition] += 1 on a Counter: a missing key counts 0
Increment(counts, key) ==
    IF key \in DOMAIN counts THEN [counts EXCEPT ![key] = @ + 1] ELSE counts @@ (key :> 1)

\* for i in range(len(modes) - 1), from index j on
RECURSIVE CountTransitions(_, _, _)
CountTransitions(counts, modes, j) ==
    IF j > Len(modes) - 1 THEN counts
    ELSE CountTransitions(Increment(counts, Transition(modes[j], modes[j + 1])), modes, j + 1)

\* Counter()
EmptyCounter == [ key \in {} |-> 0 ]

\* extract_transitions(column_data) from row r on: the rows that are not
\* missing, in order, each counted into the same Counter
RECURSIVE ExtractFrom(_, _, _)
ExtractFrom(counts, column, r) ==
    IF r > Len(column) THEN counts
    ELSE IF column[r].missing THEN ExtractFrom(counts, column, r + 1)
    ELSE ExtractFrom(CountTransitions(counts, FindModes(column[r].str), 1), column, r + 1)

extract_transitions(column) == ExtractFrom(EmptyCounter, column, 1)

\* Merging two Counters: the sum per key, a key missing on one side counting 0
CountOf(counts, key) == IF key \in DOMAIN counts THEN counts[key] ELSE 0

MergeCounters(a, b) ==
    [ key \in DOMAIN a \cup DOMAIN b |-> CountOf(a, key) + CountOf(b, key) ]

VARIABLES
    trip,            \* the route string given to the first call
    pass,            \* number of completed calls of simplify_trip
    spc,             \* position in simplify_trip: "call", "loop", "done"
    segments,        \* result of findall
    i,               \* loop index
    loopst,          \* [processed_segments, total_time, current_mode]
    simplified       \* the strings returned so far, one per call

VARIABLES
    route_str,           \* the argument of split_route_in_half
    qpc,                 \* position in it: "call", "loop", "done"
    steps_with_minutes,  \* (step, minutes) of every step
    half_time,           \* total_minutes / 2.0
    step_i,              \* loop index
    splitst,             \* [ascending, descending, accumulated, half_reached]
    ascending_str,       \* the returned pair of strings
    descending_str

VARIABLES
    column_data,         \* the column given to extract_transitions: rows that
                         \* are missing (NaN) or hold a string
    count_pc,            \* position in extract_transitions
    row_i,               \* index of the next row
    transition_counts    \* the Counter

VARIABLES
    codec_pc,            \* position of the codec run: "parse", "parsed", "format",
                         \* "reparse", "done" for the integer codec; the same
                         \* with an "f" in front for the float codec
    codec_text,          \* the duration text parsed or formatted last
    codec_minutes,       \* the minutes parsed last, or to be formatted
    codec_formatted      \* the minutes that were formatted into codec_text

VARIABLES
    work_rows,           \* the rows shared out among the workers
    work_pc,             \* "work" while rows or partial counters are left, then "merged"
    assigned,            \* row index -> the worker that processed it, 0 for none yet
    partial,             \* worker -> its private Counter
    unmerged,            \* the workers whose Counter is not merged yet
    merged               \* the merged Counter

VARIABLES
    table_rows,              \* the rows of df: [Ascending, Descending]
    table_pc,                \* position in process_transitions
    ascending_transitions,   \* the two Counters
    descending_transitions,
    combined_df              \* the returned table: rows [Transition, Count, Type]

simplifyVars == <<trip, pass, spc, segments, i, loopst, simplified>>
splitVars == <<route_str, qpc, steps_with_minutes, half_time, step_i, splitst,
               ascending_str, descending_str>>

countVars == <<column_data, count_pc, row_i, transition_counts>>
codecVars == <<codec_pc, codec_text, codec_minutes, codec_formatted>>

workVars == <<work_rows, work_pc, assigned, partial, unmerged, merged>>
tableVars == <<table_rows, table_pc, ascending_transitions, descending_transitions,
               combined_df>>

vars == <<simplifyVars, splitVars, countVars, codecVars, workVars, tableVars>>

InitSplitState ==
    [ascending |-> <<>>, descending |-> <<>>, accumulated |-> 0, half_reached |-> FALSE]

\* The variables of a component that is not running.
SimplifyIdle ==
    /\ trip = <<>> /\ pass = 0 /\ spc = "idle" /\ segments = <<>> /\ i = 1
    /\ loopst = [processed_segments |-> <<>>, total_time |-> 0, current_mode |-> NoMode]
    /\ simplified = <<>>

SplitIdle ==
    /\ route_str = <<>> /\ qpc = "idle" /\ steps_with_minutes = <<>> /\ half_time = 0
    /\ step_i = 1 /\ splitst = InitSplitState /\ ascending_str = <<>> /\ descending_str = <<>>

CountIdle ==
    /\ column_data = <<>> /\ count_pc = "idle" /\ row_i = 1
    /\ transition_counts = EmptyCounter

CodecIdle ==
    /\ codec_pc = "idle" /\ codec_text = NoDuration /\ codec_minutes = 0
    /\ codec_formatted = 0

WorkIdle ==
    /\ work_rows = <<>> /\ work_pc = "idle" /\ assigned = <<>> /\ partial = <<>>
    /\ unmerged = {} /\ merged = EmptyCounter

TableIdle ==
    /\ table_rows = <<>> /\ table_pc = "idle"
    /\ ascending_transitions = EmptyCounter /\ descending_transitions = EmptyCounter
    /\ combined_df = <<>>

InitLoopState == [processed_segments |-> <<>>, total_time |-> 0, current_mode |-> NoMode]

SimplifyInit ==
    /\ trip \in SeqsUpTo(SimplifyTokens, MaxLen) \cup {ScenarioA, NaNValue}
    /\ pass = 0
    /\ spc = "call"
    /\ segments = <<>>
    /\ i = 1
    /\ loopst = InitLoopState
    /\ simplified = <<>>
    /\ SplitIdle /\ CountIdle /\ CodecIdle /\ WorkIdle /\ TableIdle

\* The argument of the next call: the input first, then the previous result.
SimplifyArg == IF pass = 0 THEN trip ELSE simplified[pass]

\* re.findall on a value that is not a string raises TypeError (line 119)
SimplifyRaise ==
    /\ spc = "call"
    /\ SimplifyArg = NaNValue
    /\ spc' = "raised"
    /\ UNCHANGED <<trip, pass, segments, i, loopst, simplified>>
    /\ UNCHANGED <<splitVars, countVars, codecVars, workVars, tableVars>>

SimplifyCall ==
    /\ spc = "call"
    /\ SimplifyArg # NaNValue
    /\ segments' = FindSegments(SimplifyArg)
    /\ i' = 1
    /\ loopst' = InitLoopState
    /\ spc' = "loop"
    /\ UNCHANGED <<trip, pass, simplified>>
    /\ UNCHANGED <<splitVars, countVars, codecVars, workVars, tableVars>>

SimplifyLoop ==
    /\ spc = "loop"
    /\ i <= Len(segments)
    /\ loopst' = SimplifyIter(loopst, i, segments)
    /\ i' = i + 1
    /\ UNCHANGED <<trip, pass, spc, segments, simplified>>
    /\ UNCHANGED <<splitVars, countVars, codecVars, workVars, tableVars>>

SimplifyReturn ==
    /\ spc = "loop"
    /\ i > Len(segments)
    /\ simplified' = Append(simplified, Flush(loopst))
    /\ pass' = pass + 1
    /\ spc' = IF pass + 1 < Passes THEN "call" ELSE "done"
    /\ UNCHANGED <<trip, segments, i, loopst>>
    /\ UNCHANGED <<splitVars, countVars, codecVars, workVars, tableVars>>

SimplifyNext == SimplifyRaise \/ SimplifyCall \/ SimplifyLoop \/ SimplifyReturn

SpecSimplify == SimplifyInit /\ [][SimplifyNext]_vars

\* ------------------------------------------------------------------------
\* split_route_in_half as a state machine

SplitInit ==
    /\ route_str \in SeqsUpTo(SplitTokens, MaxLen) \cup {ScenarioB, NaNValue}
    /\ qpc = "call"
    /\ steps_with_minutes = <<>>
    /\ half_time = 0
    /\ step_i = 1
    /\ splitst = InitSplitState
    /\ ascending_str = <<>>
    /\ descending_str = <<>>
    /\ SimplifyIdle /\ CountIdle /\ CodecIdle /\ WorkIdle /\ TableIdle

\* route_str.split on a value that is not a string raises AttributeError
\* (line 114)
SplitRaise ==
    /\ qpc = "call"
    /\ route_str = NaNValue
    /\ qpc' = "raised"
    /\ UNCHANGED <<route_str, steps_with_minutes, half_time, step_i, splitst,
                   ascending_str, descending_str>>
    /\ UNCHANGED <<simplifyVars, countVars, codecVars, workVars, tableVars>>

\* Lines 113-137
SplitCall ==
    /\ qpc = "call"
    /\ route_str # NaNValue
    /\ steps_with_minutes' = StepsWithMinutes(route_str)
    /\ half_time' = TotalMinutes(StepsWithMinutes(route_str)) \div 2
    /\ step_i' = 1
    /\ splitst' = InitSplitState
    /\ qpc' = "loop"
    /\ UNCHANGED <<route_str, ascending_str, descending_str>>
    /\ UNCHANGED <<simplifyVars, countVars, codecVars, workVars, tableVars>>

\* Lines 139-179, one iteration
SplitLoop ==
    /\ qpc = "loop"
    /\ step_i <= Len(steps_with_minutes)
    /\ splitst' = SplitIter(splitst, steps_with_minutes[step_i], half_time)
    /\ step_i' = step_i + 1
    /\ UNCHANGED <<route_str, qpc, steps_with_minutes, half_time, ascending_str, descending_str>>
    /\ UNCHANGED <<simplifyVars, countVars, codecVars, workVars, tableVars>>

\* Lines 181-190
SplitReturn ==
    /\ qpc = "loop"
    /\ step_i > Len(steps_with_minutes)
    /\ ascending_str' = JoinSteps(splitst.ascending)
    /\ descending_str' = IF splitst.descending # <<>>
                         THEN JoinSteps(splitst.descending) ELSE NAString
    /\ qpc' = "done"
    /\ UNCHANGED <<route_str, steps_with_minutes, half_time, step_i, splitst>>
    /\ UNCHANGED <<simplifyVars, countVars, codecVars, workVars, tableVars>>

SplitNext == SplitRaise \/ SplitCall \/ SplitLoop \/ SplitReturn

SpecSplit == SplitInit /\ [][SplitNext]_vars

\* ------------------------------------------------------------------------
\* extract_transitions as a state machine, one row per step

CountModes == {"walking", "subway"}
CountTokens == { Token(md, DurText(Absent, 5, Absent)) : md \in CountModes }

\* Strings of segments, the sentinel, and strings with a step that has no
\* parenthesised duration.
CountStrings ==
    SeqsUpTo(CountTokens, MaxLen)
        \cup { NAString, << JunkToken >>,
               << Token("walking", DurText(Absent, 5, Absent)), JunkToken,
                  Token("subway", DurText(Absent, 5, Absent)) >> }

\* A row of the column: missing (NaN), or a string.
Row(str) == [missing |-> FALSE, str |-> str]
MissingRow == [missing |-> TRUE, str |-> <<>>]
CountRows == { Row(str) : str \in CountStrings } \cup {MissingRow}

CountInit ==
    /\ column_data \in SeqsUpTo(CountRows, MaxRows)
    /\ count_pc = "rows"
    /\ row_i = 1
    /\ transition_counts = EmptyCounter
    /\ SimplifyIdle /\ SplitIdle /\ CodecIdle /\ WorkIdle /\ TableIdle

\* dropna(): a missing row is not iterated over
SkipMissingRow ==
    /\ count_pc = "rows"
    /\ row_i <= Len(column_data)
    /\ column_data[row_i].missing
    /\ row_i' = row_i + 1
    /\ UNCHANGED <<column_data, count_pc, transition_counts>>
    /\ UNCHANGED <<simplifyVars, splitVars, codecVars, workVars, tableVars>>

\* Lines 53-62 for one row
ExtractRow ==
    /\ count_pc = "rows"
    /\ row_i <= Len(column_data)
    /\ ~column_data[row_i].missing
    /\ transition_counts' =
           CountTransitions(transition_counts, FindModes(column_data[row_i].str), 1)
    /\ row_i' = row_i + 1
    /\ UNCHANGED <<column_data, count_pc>>
    /\ UNCHANGED <<simplifyVars, splitVars, codecVars, workVars, tableVars>>

\* Line 64
ExtractReturn ==
    /\ count_pc = "rows"
    /\ row_i > Len(column_data)
    /\ count_pc' = "done"
    /\ UNCHANGED <<column_data, row_i, transition_counts>>
    /\ UNCHANGED <<simplifyVars, splitVars, codecVars, workVars, tableVars>>

CountNext == SkipMissingRow \/ ExtractRow \/ ExtractReturn

SpecCount == CountInit /\ [][CountNext]_vars

\* ------------------------------------------------------------------------
\* extract_transitions run by independent workers, each on its share of the
\* rows with a private Counter, the Counters merged at the end

NumWorkers == 2

WorkStrings ==
    { << Token("walking", DurText(Absent, 5, Absent)), Token("subway", DurText(Absent, 5, Absent)) >>,
      << Token("subway", DurText(Absent, 5, Absent)), Token("walking", DurText(Absent, 5, Absent)),
         Token("subway", DurText(Absent, 5, Absent)) >>,
      << Token("walking", DurText(Absent, 5, Absent)) >>,
      NAString }

WorkRows == { Row(str) : str \in WorkStrings } \cup {MissingRow}

Workers == 1 .. NumWorkers

WorkInit ==
    /\ work_rows \in SeqsUpTo(WorkRows, MaxRows)
    /\ work_pc = "work"
    /\ assigned = [ r \in 1 .. Len(work_rows) |-> 0 ]
    /\ partial = [ w \in Workers |-> EmptyCounter ]
    /\ unmerged = Workers
    /\ merged = EmptyCounter
    /\ SimplifyIdle /\ SplitIdle /\ CountIdle /\ CodecIdle /\ TableIdle

\* A worker processes one more row of the column, any row not processed yet:
\* lines 53-62 of extract_transitions for that row, on the worker's Counter
WorkerTakeRow ==
    /\ work_pc = "work"
    /\ \E w \in Workers, r \in 1 .. Len(work_rows) :
           /\ assigned[r] = 0
           /\ assigned' = [assigned EXCEPT ![r] = w]
           /\ partial' = [partial EXCEPT ![w] = ExtractFrom(@, << work_rows[r] >>, 1)]
    /\ UNCHANGED <<work_rows, work_pc, unmerged, merged>>
    /\ UNCHANGED <<simplifyVars, splitVars, countVars, codecVars, tableVars>>

\* When every row is processed the partial Counters are summed into the
\* merged one, in any order
MergePartial ==
    /\ work_pc = "work"
    /\ \A r \in 1 .. Len(work_rows) : assigned[r] # 0
    /\ \E w \in unmerged :
           /\ merged' = MergeCounters(merged, partial[w])
           /\ unmerged' = unmerged \ {w}
    /\ UNCHANGED <<work_rows, work_pc, assigned, partial>>
    /\ UNCHANGED <<simplifyVars, splitVars, countVars, codecVars, tableVars>>

WorkReturn ==
    /\ work_pc = "work"
    /\ \A r \in 1 .. Len(work_rows) : assigned[r] # 0
    /\ unmerged = {}
    /\ work_pc' = "merged"
    /\ UNCHANGED <<work_rows, assigned, partial, unmerged, merged>>
    /\ UNCHANGED <<simplifyVars, splitVars, countVars, codecVars, tableVars>>

WorkNext == WorkerTakeRow \/ MergePartial \/ WorkReturn

SpecWorkers == WorkInit /\ [][WorkNext]_vars

\* ------------------------------------------------------------------------
\* process_transitions

InOrderAscending(above, below) == above <= below

\* sort_values(by="Count", ascending=False): what holds of a row and a row
\* below it
InOrder(above, below) == above >= below

\* pd.DataFrame(counts.items(), columns=["Transition", "Count"])
Items(counts) == { [Transition |-> key, Count |-> counts[key]] : key \in DOMAIN counts }

\* The frames sort_values can return: every item once, the counts in order.
\* The order of items of equal count is not fixed by the sort.
SortedFrames(counts) ==
    { f \in [ 1 .. Cardinality(Items(counts)) -> Items(counts) ] :
          /\ \A x, y \in DOMAIN f : x # y => f[x] # f[y]
          /\ \A x \in DOMAIN f : x + 1 \in DOMAIN f => InOrder(f[x].Count, f[x + 1].Count) }

\* df["Type"] = type
WithType(frame, type) ==
    [ j \in 1 .. Len(frame) |->
          [Transition |-> frame[j].Transition, Count |-> frame[j].Count, Type |-> type] ]

TableStrings ==
    { << Token("walking", DurText(Absent, 5, Absent)), Token("subway", DurText(Absent, 5, Absent)) >>,
      << Token("walking", DurText(Absent, 5, Absent)), Token("subway", DurText(Absent, 5, Absent)),
         Token("walking", DurText(Absent, 5, Absent)) >>,
      NAString }

TableCells == { Row(str) : str \in TableStrings } \cup {MissingRow}

TableRows == [Ascending : TableCells, Descending : TableCells]

\* df["Ascending"], df["Descending"]
ColumnOf(rows, name) == [ r \in 1 .. Len(rows) |-> rows[r][name] ]

TableInit ==
    /\ table_rows \in SeqsUpTo(TableRows, MaxRows)
    /\ table_pc = "ascending"
    /\ ascending_transitions = EmptyCounter
    /\ descending_transitions = EmptyCounter
    /\ combined_df = <<>>
    /\ SimplifyIdle /\ SplitIdle /\ CountIdle /\ CodecIdle /\ WorkIdle

\* Line 96
TableExtractAscending ==
    /\ table_pc = "ascending"
    /\ ascending_transitions' = extract_transitions(ColumnOf(table_rows, "Ascending"))
    /\ table_pc' = "descending"
    /\ UNCHANGED <<table_rows, descending_transitions, combined_df>>
    /\ UNCHANGED <<simplifyVars, splitVars, countVars, codecVars, workVars>>

\* Line 100
TableExtractDescending ==
    /\ table_pc = "descending"
    /\ descending_transitions' = extract_transitions(ColumnOf(table_rows, "Descending"))
    /\ table_pc' = "frames"
    /\ UNCHANGED <<table_rows, ascending_transitions, combined_df>>
    /\ UNCHANGED <<simplifyVars, splitVars, countVars, codecVars, workVars>>

\* Lines 104-125
TableCombine ==
    /\ table_pc = "frames"
    /\ \E ascending_df \in SortedFrames(ascending_transitions),
          descending_df \in SortedFrames(descending_transitions) :
           combined_df' = WithType(ascending_df, "Ascending")
                              \o WithType(descending_df, "Descending")
    /\ table_pc' = "done"
    /\ UNCHANGED <<table_rows, ascending_transitions, descending_transitions>>
    /\ UNCHANGED <<simplifyVars, splitVars, countVars, codecVars, workVars>>

TableNext == TableExtractAscending \/ TableExtractDescending \/ TableCombine

SpecTable == TableInit /\ [][TableNext]_vars

\* ------------------------------------------------------------------------
\* split_route_in_half followed by process_transitions on its result: stage 4
\* writes the two strings of a route to trip4.csv, stage 5 reads the file

\* pd.read_csv(TRIP4_CSV) with the default missing-value markers: a cell
\* holding the empty string or "N/A" is read as a missing value.
ReadCell(str) == IF str = <<>> \/ str = NAString THEN MissingRow ELSE Row(str)

\* Lines 237-238 and 259 of stage 4, line 146 of stage 5
ComposeLoadTable ==
    /\ qpc = "done"
    /\ table_pc = "idle"
    /\ table_rows' = << [Ascending |-> ReadCell(ascending_str),
                        Descending |-> ReadCell(descending_str)] >>
    /\ table_pc' = "ascending"
    /\ UNCHANGED <<ascending_transitions, descending_transitions, combined_df>>
    /\ UNCHANGED <<simplifyVars, splitVars, countVars, codecVars, workVars>>

ComposeNext == SplitNext \/ ComposeLoadTable \/ TableNext

SpecCompose == SplitInit /\ [][ComposeNext]_vars

\* ------------------------------------------------------------------------
\* The stages of the per-row pipeline, each run on its own input

\* Well-formed tokens, and tokens that are not of the mode(duration-text)
\* shape: "stop", "(6분)", "bus (6분)", "bus(약 6분)", "bus(5)", "bus(15)",
\* "bus(6분" and "walking(6분".
StageTokens ==
    { Token("walking", DurText(Absent, 6, Absent)),
      Token("bus", DurText(Absent, 6, Absent)),
      Token("subway", DurText(Absent, 7, Absent)),
      JunkToken,
      Token(NoMode, DurText(Absent, 6, Absent)),
      FormToken("bus", DurText(Absent, 6, Absent), "spaced"),
      FormToken("bus", DurText(Absent, 6, Absent), "prefixed"),
      FormToken("bus", DurText(Absent, 5, Absent), "unmarked"),
      FormToken("bus", DurText(Absent, 15, Absent), "unmarked"),
      FormToken("bus", DurText(Absent, 6, Absent), "unclosed"),
      FormToken("walking", DurText(Absent, 6, Absent), "unclosed") }

StageStrings == SeqsUpTo(StageTokens, MaxLen) \cup {NaNValue}

StageSimplifyInit ==
    /\ trip \in StageStrings
    /\ pass = 0
    /\ spc = "call"
    /\ segments = <<>>
    /\ i = 1
    /\ loopst = InitLoopState
    /\ simplified = <<>>
    /\ SplitIdle /\ CountIdle /\ CodecIdle /\ WorkIdle /\ TableIdle

StageSplitInit ==
    /\ route_str \in StageStrings
    /\ qpc = "call"
    /\ steps_with_minutes = <<>>
    /\ half_time = 0
    /\ step_i = 1
    /\ splitst = InitSplitState
    /\ ascending_str = <<>>
    /\ descending_str = <<>>
    /\ SimplifyIdle /\ CountIdle /\ CodecIdle /\ WorkIdle /\ TableIdle

\* A column of one row: a string, or a missing value.
StageCountInit ==
    /\ column_data \in { << Row(str) >> : str \in StageStrings \ {NaNValue} }
                          \cup { << MissingRow >> }
    /\ count_pc = "rows"
    /\ row_i = 1
    /\ transition_counts = EmptyCounter
    /\ SimplifyIdle /\ SplitIdle /\ CodecIdle /\ WorkIdle /\ TableIdle

StagesInit == StageSimplifyInit \/ StageSplitInit \/ StageCountInit

StagesNext == SimplifyNext \/ SplitNext \/ CountNext

SpecStages == StagesInit /\ [][StagesNext]_vars

\* ------------------------------------------------------------------------
\* The two codecs: parse a text, format the minutes, parse the result

CodecTexts ==
    { DurText(h, m, f) : h \in {Absent} \cup 0 .. MaxHours,
                         m \in {Absent} \cup 0 .. MaxMinutes,
                         f \in {Absent, 0, 5} }
        \ { t \in [h : {Absent} \cup 0 .. MaxHours, m : {Absent}, f : {0, 5}] : TRUE }

CodecInit ==
    /\ \/ /\ codec_pc = "parse"
          /\ codec_text \in CodecTexts
          /\ codec_minutes = 0
       \/ /\ codec_pc = "format"
          /\ codec_text = NoDuration
          /\ codec_minutes \in 0 .. MaxMinutes
       \/ /\ codec_pc = "fparse"
          /\ codec_text \in CodecTexts
          /\ codec_minutes = 0
       \/ /\ codec_pc = "fformat"
          /\ codec_text = NoDuration
          /\ codec_minutes \in 0 .. MaxMinutes * PerMinute
    /\ codec_formatted = 0
    /\ SimplifyIdle /\ SplitIdle /\ CountIdle /\ WorkIdle /\ TableIdle

CodecParse ==
    /\ codec_pc = "parse"
    /\ codec_minutes' = convert_time_to_minutes(codec_text)
    /\ codec_pc' = "parsed"
    /\ UNCHANGED <<codec_text, codec_formatted>>
    /\ UNCHANGED <<simplifyVars, splitVars, countVars, workVars, tableVars>>

CodecFormat ==
    /\ codec_pc \in {"format", "parsed"}
    /\ codec_text' = convert_minutes_to_time(codec_minutes)
    /\ codec_formatted' = codec_minutes
    /\ codec_pc' = "reparse"
    /\ UNCHANGED codec_minutes
    /\ UNCHANGED <<simplifyVars, splitVars, countVars, workVars, tableVars>>

CodecReparse ==
    /\ codec_pc = "reparse"
    /\ codec_minutes' = convert_time_to_minutes(codec_text)
    /\ codec_pc' = "done"
    /\ UNCHANGED <<codec_text, codec_formatted>>
    /\ UNCHANGED <<simplifyVars, splitVars, countVars, workVars, tableVars>>

\* The float codec of 4_ascending_descending.py, minutes in halves of a minute
FloatParse ==
    /\ codec_pc = "fparse"
    /\ codec_minutes' = parse_duration_to_minutes(codec_text)
    /\ codec_pc' = "fparsed"
    /\ UNCHANGED <<codec_text, codec_formatted>>
    /\ UNCHANGED <<simplifyVars, splitVars, countVars, workVars, tableVars>>

FloatFormat ==
    /\ codec_pc \in {"fformat", "fparsed"}
    /\ codec_text' = format_minutes_to_string(codec_minutes)
    /\ codec_formatted' = codec_minutes
    /\ codec_pc' = "freparse"
    /\ UNCHANGED codec_minutes
    /\ UNCHANGED <<simplifyVars, splitVars, countVars, workVars, tableVars>>

FloatReparse ==
    /\ codec_pc = "freparse"
    /\ codec_minutes' = parse_duration_to_minutes(codec_text)
    /\ codec_pc' = "fdone"
    /\ UNCHANGED <<codec_text, codec_formatted>>
    /\ UNCHANGED <<simplifyVars, splitVars, countVars, workVars, tableVars>>

CodecNext ==
    CodecParse \/ CodecFormat \/ CodecReparse \/ FloatParse \/ FloatFormat \/ FloatReparse

SpecCodec == CodecInit /\ [][CodecNext]_vars

\* ------------------------------------------------------------------------
\* Properties of simplify_trip

\* Call k of simplify_trip: the segments it parsed and the string it returned.
SegmentsOf(k) == FindSegments(IF k = 1 THEN trip ELSE simplified[k - 1])

\* The call that has just returned, if any.  A property of calls is stated
\* of the call whose return led to the state: every call returns into a state
\* of its own, with spc "call" or "done", so each call of a run is covered.
Calls == IF spc \in {"call", "done"} /\ simplified # <<>> THEN {Len(simplified)} ELSE {}

IsWalking(tok) == tok.mode = "walking"
WalkingAt(s) == { j \in 1 .. Len(s) : IsWalking(s[j]) }
NonWalkingAt(s) == { j \in 1 .. Len(s) : ~IsWalking(s[j]) }
MaxOf(S) == CHOOSE x \in S : \A y \in S : y <= x

\* C1: simplify_trip is idempotent: every call of simplify_trip on the
\* result of a previous call returns that result unchanged.
C1_Idempotent ==
    \A k \in Calls : k > 1 => simplified[k] = simplified[k - 1]

\* A second call has returned, on a result that the first call had really
\* rewritten (merged or absorbed something).
C1_Witness ==
    /\ Len(simplified) >= 2
    /\ simplified[1] # FindSegments(trip)
    /\ Len(simplified[1]) >= 2

\* C4: Walking-boundary rule: a walking segment at the first or the last
\* index of the parsed sequence is in the output verbatim, the last one
\* directly after the flushed accumulating mode; interior walking segments
\* are no output segment, so walking is in the output only as its first
\* and/or last element.
C4_WalkingBoundary ==
    \A k \in Calls :
        LET segs == SegmentsOf(k)
            n    == Len(segs)
            out  == simplified[k]
        IN  /\ (n >= 1 /\ IsWalking(segs[1])) => (Len(out) >= 1 /\ out[1] = segs[1])
            /\ (n >= 1 /\ IsWalking(segs[n])) => (Len(out) >= 1 /\ out[Len(out)] = segs[n])
            /\ (n >= 1 /\ IsWalking(segs[n]) /\ NonWalkingAt(segs) # {}) =>
                   /\ Len(out) >= 2
                   /\ out[Len(out) - 1].mode = segs[MaxOf(NonWalkingAt(segs))].mode
            /\ \A j \in WalkingAt(out) : j = 1 \/ j = Len(out)
            /\ Cardinality(WalkingAt(out)) = Cardinality(WalkingAt(segs) \cap {1, n})

\* A route with walking at both ends, an interior walking segment and a
\* mode accumulating when the last walking segment is read.
C4_Witness ==
    /\ Len(simplified) >= 1
    /\ trip = ScenarioA
    /\ simplified[1][1] = trip[1]
    /\ simplified[1][4] = trip[5]

\* Minutes of the segments of mode md in the string s, by the integer codec.
MinutesOfMode(s, md) ==
    SumSeq([j \in 1 .. Len(s) |->
               IF s[j].mode = md THEN convert_time_to_minutes(s[j].dur) ELSE 0])

\* The mode accumulating when segment p is read: that of the latest
\* non-walking segment before p, none if only walking precedes p.
AccumulatingAt(segs, p) ==
    LET before == { q \in NonWalkingAt(segs) : q < p }
    IN  IF before = {} THEN NoMode ELSE segs[MaxOf(before)].mode

InteriorWalkingAt(segs) == { p \in WalkingAt(segs) : p # 1 /\ p # Len(segs) }

\* Minutes of the interior walking segments read while md is accumulating.
AbsorbedBy(segs, md) ==
    SumSeq([p \in 1 .. Len(segs) |->
               IF p \in InteriorWalkingAt(segs) /\ AccumulatingAt(segs, p) = md
               THEN convert_time_to_minutes(segs[p].dur) ELSE 0])

\* C5: Interior-walking absorption: the minutes emitted for each non-walking
\* mode are the minutes of its own segments plus the minutes of the interior
\* walking segments read while it was accumulating; interior walking read
\* while no mode is accumulating is in no output segment.
C5_InteriorWalkingAbsorbed ==
    \A k \in Calls :
        LET segs == SegmentsOf(k)
            out  == simplified[k]
        IN  \A md \in { segs[j].mode : j \in NonWalkingAt(segs) }
                      \cup { out[j].mode : j \in NonWalkingAt(out) } :
                MinutesOfMode(out, md) = MinutesOfMode(segs, md) + AbsorbedBy(segs, md)

\* Scenario A: bus(15분) and the interior walking(3분) are emitted as bus(18분).
C5_Witness ==
    /\ Len(simplified) >= 1
    /\ trip = ScenarioA
    /\ simplified[1] = ScenarioAResult

\* Interior walking read while no mode accumulates: its minutes are dropped.
C5_WitnessDropped ==
    /\ Len(simplified) >= 1
    /\ \E p \in InteriorWalkingAt(FindSegments(trip)) :
          /\ AccumulatingAt(FindSegments(trip), p) = NoMode
          /\ convert_time_to_minutes(FindSegments(trip)[p].dur) > 0

\* C6 as stated: no two adjacent segments of the output have the same mode,
\* for every input route.
C6_NoAdjacentSameMode ==
    \A k \in Calls :
        \A j \in 1 .. Len(simplified[k]) - 1 :
            simplified[k][j].mode # simplified[k][j + 1].mode

\* C6 amended: two adjacent segments of the output have the same mode only
\* when both are walking, and that happens exactly when the route has at
\* least two segments, all of them walking: the output is then its first and
\* its last segment.
C6_NoAdjacentSameModeButWalking ==
    \A k \in Calls :
        LET segs == SegmentsOf(k)
            out  == simplified[k]
            allWalking == Len(segs) >= 2 /\ NonWalkingAt(segs) = {}
        IN  /\ \A j \in 1 .. Len(out) - 1 :
                   out[j].mode = out[j + 1].mode => (IsWalking(out[j]) /\ allWalking)
            /\ allWalking => out = << segs[1], segs[Len(segs)] >>

\* A route of three walking segments has been simplified; also a route in
\* which the same non-walking mode recurs around an interior walking segment.
C6_Witness ==
    /\ Len(simplified) >= 1
    /\ Len(trip) = 3
    /\ \A j \in 1 .. 3 : IsSegment(trip[j]) /\ IsWalking(trip[j])
    /\ Len(simplified[1]) = 2

\* ------------------------------------------------------------------------
\* Properties of split_route_in_half

SplitDone == qpc = "done"
total_minutes == TotalMinutes(StepsWithMinutes(route_str))

\* Minutes elapsed at the start of step p of the route.
ElapsedBefore(steps, p) == TotalMinutes(SubSeq(steps, 1, p - 1))

\* The minutes a duration text denotes when read as written ("2.5분" is two
\* and a half minutes), in halves of a minute.
DenotedMinutes(t) ==
    (IF t.h # Absent THEN t.h * 60 * PerMinute ELSE 0)
    + (IF t.m # Absent THEN t.m * PerMinute ELSE 0)
    + (IF t.f = 5 THEN 1 ELSE 0)

\* C2: Split conservation: the minutes of the ascending segments plus the
\* minutes of the descending segments are the minutes of the steps scanned
\* so far, hence the total duration of the input route on return.
C2_SplitConservation ==
    qpc \in {"loop", "done"} =>
        /\ TotalMinutes(splitst.ascending) + TotalMinutes(splitst.descending)
               = ElapsedBefore(steps_with_minutes, step_i)
        /\ SplitDone =>
               TotalMinutes(splitst.ascending) + TotalMinutes(splitst.descending)
                   = total_minutes

\* A route one of whose segments was split has been returned.
C2_Witness ==
    /\ SplitDone
    /\ Len(route_str) >= 2
    /\ Len(splitst.ascending) + Len(splitst.descending) = Len(route_str) + 1
    /\ total_minutes > 0

\* C7: Straddling split: a segment of duration d that starts at
\* elapsed < half and ends at elapsed + d > half is replaced by two segments
\* of its mode: the last of ascending, of duration half - elapsed, and the
\* first of descending, of duration d - (half - elapsed), each written as
\* that duration; walking(7) -> subway(6) -> walking(6) gives
\* walking(7) -> subway(2.5) and subway(3.5) -> walking(6).
C7_StraddlingSplit ==
    SplitDone =>
        /\ \A p \in 1 .. Len(steps_with_minutes) :
               LET elapsed == ElapsedBefore(steps_with_minutes, p)
                   d       == steps_with_minutes[p][2]
                   md      == steps_with_minutes[p][1].mode
                   asc     == splitst.ascending
                   desc    == splitst.descending
               IN  (elapsed < half_time /\ elapsed + d > half_time) =>
                       /\ Len(asc) = p
                       /\ asc[p][1].mode = md
                       /\ asc[p][2] = half_time - elapsed
                       /\ DenotedMinutes(asc[p][1].dur) = half_time - elapsed
                       /\ Len(desc) = Len(steps_with_minutes) - p + 1
                       /\ desc[1][1].mode = md
                       /\ desc[1][2] = d - (half_time - elapsed)
                       /\ desc[1][2] > 0
                       /\ DenotedMinutes(desc[1][1].dur) = d - (half_time - elapsed)
        /\ route_str = ScenarioB =>
               /\ ascending_str = ScenarioBAscending
               /\ descending_str = ScenarioBDescending

\* Scenario B has been split.
C7_Witness ==
    /\ SplitDone
    /\ route_str = ScenarioB
    /\ half_time = 19
    /\ ascending_str = ScenarioBAscending

\* C8 as stated: a route of total duration 0 is returned whole as ascending,
\* with "N/A" as descending.
C8_ZeroTotalAllAscending ==
    (SplitDone /\ total_minutes = 0) =>
        /\ ascending_str = route_str
        /\ descending_str = NAString

\* C8 amended: of a route of total duration 0 only the first segment is
\* ascending and every later segment is descending, unchanged; descending is
\* "N/A" exactly when the route has at most one segment.
C8_ZeroTotalFirstAscending ==
    (SplitDone /\ total_minutes = 0) =>
        /\ ascending_str = (IF route_str = <<>> THEN <<>> ELSE << Head(route_str) >>)
        /\ (Len(route_str) >= 2) => (descending_str = Tail(route_str))
        /\ (Len(route_str) <= 1) => (descending_str = NAString)

\* A route of three segments of duration 0 has been split.
C8_Witness ==
    /\ SplitDone
    /\ Len(route_str) = 3
    /\ total_minutes = 0
    /\ Len(descending_str) = 2

\* C9: descending is "N/A" exactly when the descending list is empty, which
\* is exactly when the route has no segment or is one segment of duration 0;
\* otherwise descending is the non-empty string of the descending segments.
C9_SentinelIffEmpty ==
    SplitDone =>
        /\ (descending_str = NAString) <=> (splitst.descending = <<>>)
        /\ (splitst.descending = <<>>) <=>
               \/ Len(route_str) = 0
               \/ Len(route_str) = 1 /\ steps_with_minutes[1][2] = 0
        /\ splitst.descending # <<>> =>
               /\ descending_str = JoinSteps(splitst.descending)
               /\ Len(descending_str) >= 1

\* Both cases of the sentinel have been returned: ...
C9_Witness ==
    /\ SplitDone
    /\ Len(route_str) = 1
    /\ steps_with_minutes[1][2] = 0
    /\ descending_str = NAString

\* ... and a non-empty descending string for a route of one segment.
C9_WitnessNonEmpty ==
    /\ SplitDone
    /\ Len(route_str) = 1
    /\ steps_with_minutes[1][2] > 0
    /\ descending_str # NAString

\* ------------------------------------------------------------------------
\* Properties of extract_transitions

RECURSIVE SumOfCounts(_, _)
SumOfCounts(counts, keys) ==
    IF keys = {} THEN 0
    ELSE LET key == CHOOSE x \in keys : TRUE
         IN  counts[key] + SumOfCounts(counts, keys \ {key})

CounterTotal(counts) == SumOfCounts(counts, DOMAIN counts)

\* max(0, number of modes of the row - 1); a missing row is not processed
ExpectedOfRow(row) ==
    IF row.missing \/ Len(FindModes(row.str)) < 2 THEN 0
    ELSE Len(FindModes(row.str)) - 1

\* C3: Transition count conservation: each string processed adds
\* max(0, number of its modes - 1) to the sum of the counts, so the sum of
\* the counter is the sum of that over the rows processed; "N/A", the empty
\* string and strings of one mode add nothing.
C3_TransitionCountConservation ==
    count_pc \in {"rows", "done"} =>
        CounterTotal(transition_counts)
            = SumSeq([ r \in 1 .. row_i - 1 |-> ExpectedOfRow(column_data[r]) ])

\* Two rows have been processed: the sentinel, and a string of three modes
\* whose two transitions differ.
C3_Witness ==
    /\ count_pc = "done"
    /\ Len(column_data) = 2
    /\ column_data[1] = Row(NAString)
    /\ ~column_data[2].missing
    /\ Len(FindModes(column_data[2].str)) = 3
    /\ Cardinality(DOMAIN transition_counts) = 2

\* ------------------------------------------------------------------------
\* Properties of the integer codec

\* C10: Integer codec round trip: parsing the text that
\* convert_minutes_to_time made of m minutes gives m again, for minutes given
\* directly and for minutes parsed from a text.
C10_IntegerRoundTrip ==
    codec_pc = "done" => codec_minutes = codec_formatted

\* A value with both an hour and a minute clause has made the round trip.
C10_Witness ==
    /\ codec_pc = "done"
    /\ codec_formatted > 60
    /\ codec_text.h # Absent
    /\ codec_text.m # Absent

\* ------------------------------------------------------------------------
\* Properties of the float codec and of the clause rule of both codecs

\* C11 as stated: Float codec round trip: parsing the text that
\* format_minutes_to_string made of m minutes gives m again, for whole and
\* for fractional m.
C11_FloatRoundTrip ==
    codec_pc = "fdone" => codec_minutes = codec_formatted

\* The clauses that a format of hours whole hours and a remainder rem emits.
ClauseRule(t, hours, rem) ==
    /\ (t.h = Absent) <=> (hours = 0)
    /\ (t.h # Absent) => (t.h = hours)
    /\ (t.m = Absent) <=> (rem = 0 /\ hours > 0)
    /\ t # NoDuration
    /\ (hours = 0 /\ rem = 0) => (t.h = Absent /\ t.m = 0 /\ t.f \in {Absent, 0})

\* C12: Duration format clause rule, for both codecs: no hour clause when
\* the whole hours are 0, no minute clause when the remainder is 0 and the
\* hours are positive, never no clause at all, format(0) the minute-only
\* form of value 0; the parse of a text with neither marker is 0.
C12_ClauseRule ==
    /\ codec_pc \in {"reparse", "done"} =>
           ClauseRule(codec_text, codec_formatted \div 60, codec_formatted % 60)
    /\ codec_pc \in {"freparse", "fdone"} =>
           ClauseRule(codec_text, codec_formatted \div (60 * PerMinute),
                      codec_formatted % (60 * PerMinute))
    /\ (codec_pc \in {"parsed", "fparsed"} /\ codec_text = NoDuration) =>
           codec_minutes = 0

\* 0 minutes have been formatted by the integer codec as "0분".
C12_Witness ==
    /\ codec_pc = "reparse"
    /\ codec_formatted = 0
    /\ codec_text = DurText(Absent, 0, Absent)

\* 0.0 minutes by the float codec, a whole hour by each, the empty text parsed.
C12_WitnessFloatZero ==
    /\ codec_pc = "freparse"
    /\ codec_formatted = 0
    /\ codec_text = DurText(Absent, 0, 0)

C12_WitnessEmptyText ==
    /\ codec_pc = "fparsed"
    /\ codec_text = NoDuration

\* ------------------------------------------------------------------------
\* Properties of the stages on malformed and missing input

\* A token of the mode(duration-text) shape: a mode, directly followed by a
\* parenthesised duration text with its markers; and the others.
WellFormed(tok) == tok.form = "plain" /\ tok.mode # NoMode /\ tok.dur # NoDuration
Malformed(tok) == ~WellFormed(tok)

\* The modes of the well-formed segments of a string, in order.
ModesOfSegments(str) ==
    LET segs == SelectSeq(str, WellFormed)
    IN  [ j \in 1 .. Len(segs) |-> segs[j].mode ]

\* How often the pair key is a pair of adjacent modes of the sequence.
PairCount(modes, key) ==
    Cardinality({ j \in 1 .. Len(modes) - 1 : << modes[j], modes[j + 1] >> = key })

\* The steps of both halves, in order.
StepsOfHalves == JoinSteps(splitst.ascending) \o JoinSteps(splitst.descending)

\* C13: a token that does not have the mode(duration-text) shape is
\* skipped without raising by all three functions, and the well-formed tokens
\* of the row are still processed: the segments simplify_trip works on are
\* the well-formed tokens of its argument and its output holds none of the
\* others; the steps split_route_in_half distributes are the well-formed
\* tokens of the route and neither half holds one of the others; the
\* transitions extract_transitions counts are the adjacent pairs of the modes
\* of the well-formed tokens of the row.
C13_MalformedSkipped ==
    /\ (trip # NaNValue) => spc # "raised"
    /\ (route_str # NaNValue) => qpc # "raised"
    /\ spc = "loop" => segments = SelectSeq(SimplifyArg, WellFormed)
    /\ \A k \in Calls : \A j \in 1 .. Len(simplified[k]) : WellFormed(simplified[k][j])
    /\ qpc \in {"loop", "done"} =>
           [ j \in 1 .. Len(steps_with_minutes) |-> steps_with_minutes[j][1] ]
               = SelectSeq(route_str, WellFormed)
    /\ SplitDone => \A j \in 1 .. Len(StepsOfHalves) : WellFormed(StepsOfHalves[j])
    /\ (count_pc = "done" /\ Len(column_data) = 1 /\ ~column_data[1].missing) =>
           \A key \in DOMAIN transition_counts
                      \cup { << from, to >> : from \in Modes, to \in Modes } :
               CountOf(transition_counts, key)
                   = PairCount(ModesOfSegments(column_data[1].str), key)

\* C14 as stated: on a missing or empty route text every stage completes
\* without raising, and the row contributes nothing: simplify_trip returns
\* the empty string, split_route_in_half the empty string and "N/A", and
\* extract_transitions counts nothing for it.
C14_MissingOrEmptyIsNoOp ==
    /\ spc # "raised"
    /\ qpc # "raised"
    /\ (pass >= 1 /\ trip \in {<<>>, NaNValue}) => simplified[1] = <<>>
    /\ (SplitDone /\ route_str \in {<<>>, NaNValue}) =>
           (ascending_str = <<>> /\ descending_str = NAString)
    /\ (count_pc = "done"
          /\ \A r \in 1 .. Len(column_data) :
                 column_data[r].missing \/ column_data[r].str = <<>>) =>
           transition_counts = EmptyCounter

\* ------------------------------------------------------------------------
\* Properties of the aggregation by workers

\* The rows processed so far, in the order of the column.
RowsProcessed == SelectSeq([ r \in 1 .. Len(work_rows) |->
                                 [row |-> work_rows[r], by |-> assigned[r]] ],
                           LAMBDA x : x.by # 0)

RECURSIVE MergeAll(_, _)
MergeAll(counts, ws) ==
    IF ws = {} THEN counts
    ELSE LET w == CHOOSE x \in ws : TRUE
         IN  MergeAll(MergeCounters(counts, partial[w]), ws \ {w})

\* C15: Aggregation is additive and independent of the order: whatever
\* the partition of the rows among the workers, the order in which rows are
\* processed and the order in which the partial counters are merged, the
\* merged counter is the counter of one sequential run of
\* extract_transitions over all rows; at every moment the merged counter plus
\* the counters not merged yet is the counter of a sequential run over the
\* rows processed so far.
C15_MergeEqualsSequential ==
    /\ work_pc = "merged" => merged = extract_transitions(work_rows)
    /\ work_pc \in {"work", "merged"} =>
           MergeAll(merged, unmerged)
               = extract_transitions([ r \in 1 .. Len(RowsProcessed) |-> RowsProcessed[r].row ])

\* Two workers each processed one row, the second row first, both rows hold
\* the transition walking -> subway, and the counters have been merged.
C15_Witness ==
    /\ work_pc = "merged"
    /\ Len(work_rows) = 2
    /\ assigned[1] # assigned[2]
    /\ \A r \in 1 .. 2 : CounterTotal(extract_transitions(<< work_rows[r] >>)) >= 1
    /\ \E key \in DOMAIN merged : merged[key] = 2

\* ------------------------------------------------------------------------
\* Properties of process_transitions

BlockOf(type) == SelectSeq(combined_df, LAMBDA row : row.Type = type)

\* C16: In the table returned by process_transitions every Ascending
\* tuple comes before every Descending tuple, within each block the counts
\* do not increase from top to bottom, and every tuple has a count of at
\* least 1; each block lists the transitions of its counter, each once.
C16_BlocksSortedAndPositive ==
    table_pc = "done" =>
        /\ \A x, y \in 1 .. Len(combined_df) :
               (combined_df[x].Type = "Ascending" /\ combined_df[y].Type = "Descending")
                   => x < y
        /\ \A x \in 1 .. Len(combined_df) :
               combined_df[x].Type \in {"Ascending", "Descending"}
        /\ \A x \in 1 .. Len(combined_df) - 1 :
               combined_df[x].Type = combined_df[x + 1].Type
                   => combined_df[x].Count >= combined_df[x + 1].Count
        /\ \A x \in 1 .. Len(combined_df) : combined_df[x].Count >= 1
        /\ Len(BlockOf("Ascending")) = Cardinality(DOMAIN ascending_transitions)
        /\ Len(BlockOf("Descending")) = Cardinality(DOMAIN descending_transitions)
        /\ \A x \in 1 .. Len(combined_df) :
               LET counts == IF combined_df[x].Type = "Ascending"
                             THEN ascending_transitions ELSE descending_transitions
               IN  /\ combined_df[x].Transition \in DOMAIN counts
                   /\ combined_df[x].Count = counts[combined_df[x].Transition]

\* A table whose Ascending block has two tuples of different counts and whose
\* Descending block has one tuple, a transition of the Ascending column not
\* being observed in the Descending one.
C16_Witness ==
    /\ table_pc = "done"
    /\ Len(BlockOf("Ascending")) = 2
    /\ BlockOf("Ascending")[1].Count = 2
    /\ BlockOf("Ascending")[2].Count = 1
    /\ Len(BlockOf("Descending")) = 1

\* ------------------------------------------------------------------------
\* Properties of the scan of split_route_in_half

\* The steps scanned so far.
Scanned == step_i - 1

\* Step p of the route is the midpoint step of the scan so far: the steps
\* before it are the first p - 1 of ascending, unchanged; it is the last of
\* ascending, either unchanged or as the first piece of a split whose second
\* piece is the first of descending; the steps after it are the rest of
\* descending, unchanged and in order.
MidpointStepIs(p) ==
    LET asc  == splitst.ascending
        desc == splitst.descending
        S    == steps_with_minutes
    IN  /\ Len(asc) = p
        /\ SubSeq(asc, 1, p - 1) = SubSeq(S, 1, p - 1)
        /\ \/ /\ asc[p] = S[p]
              /\ desc = SubSeq(S, p + 1, Scanned)
           \/ /\ desc # <<>>
              /\ asc[p][1].mode = S[p][1].mode
              /\ desc[1][1].mode = S[p][1].mode
              /\ asc[p][2] > 0
              /\ desc[1][2] > 0
              /\ asc[p][2] + desc[1][2] = S[p][2]
              /\ Tail(desc) = SubSeq(S, p + 1, Scanned)

\* C17: split_route_in_half partitions the route into a prefix and a
\* suffix: until the midpoint is marked reached every segment goes unchanged
\* to ascending and none to descending; once it is marked, every later
\* segment goes unchanged and in order to descending and none to ascending;
\* at most one segment is split, the midpoint segment; and for a non-empty
\* route the midpoint is marked reached by the end of the scan.
C17_PrefixAndSuffix ==
    qpc \in {"loop", "done"} =>
        /\ ~splitst.half_reached =>
               /\ splitst.descending = <<>>
               /\ splitst.ascending = SubSeq(steps_with_minutes, 1, Scanned)
        /\ splitst.half_reached => \E p \in 1 .. Scanned : MidpointStepIs(p)
        /\ Len(splitst.ascending) + Len(splitst.descending) \in {Scanned, Scanned + 1}
        /\ (SplitDone /\ Len(route_str) >= 1) => splitst.half_reached

\* The scan is over, the second of three segments was split and the third
\* went to descending.
C17_Witness ==
    /\ SplitDone
    /\ Len(route_str) = 3
    /\ splitst.half_reached
    /\ Len(splitst.ascending) = 2
    /\ Len(splitst.descending) = 2
    /\ splitst.descending[2] = steps_with_minutes[3]
    /\ splitst.ascending[1] = steps_with_minutes[1]

\* C18: while the midpoint is not reached the elapsed total never exceeds
\* half, so at the step that is neither before nor at the midpoint the
\* remainder half - elapsed is not negative (the branch giving the whole
\* segment to descending is not taken) and the descending part of the split
\* is strictly positive.
C18_ElapsedAtMostHalf ==
    (qpc \in {"loop", "done"} /\ ~splitst.half_reached) =>
        /\ splitst.accumulated <= half_time
        /\ splitst.accumulated = TotalMinutes(splitst.ascending)
        /\ (qpc = "loop" /\ step_i <= Len(steps_with_minutes)) =>
               LET dur_min == steps_with_minutes[step_i][2]
                   reached == splitst.accumulated + dur_min
               IN  (~BeforeMidpoint(reached, half_time) /\ ~AtMidpoint(reached, half_time)) =>
                       /\ half_time - splitst.accumulated >= 0
                       /\ DescendingPart(dur_min, half_time - splitst.accumulated) > 0

\* The scan is about to split a segment, some time having elapsed.
C18_Witness ==
    /\ qpc = "loop"
    /\ ~splitst.half_reached
    /\ step_i <= Len(steps_with_minutes)
    /\ splitst.accumulated > 0
    /\ splitst.accumulated + steps_with_minutes[step_i][2] > half_time

\* The minutes the texts of a string of steps denote.
DenotedTotal(str) == SumSeq([ j \in 1 .. Len(str) |-> DenotedMinutes(str[j].dur) ])

\* C19: for every non-empty route the two halves have the same duration:
\* the durations of the ascending segments sum to total / 2 and so do those
\* of the descending segments, as computed and as written in the returned
\* strings.
C19_EqualHalves ==
    (SplitDone /\ Len(route_str) >= 1) =>
        /\ 2 * half_time = total_minutes
        /\ TotalMinutes(splitst.ascending) = half_time
        /\ TotalMinutes(splitst.descending) = half_time
        /\ DenotedTotal(ascending_str) = half_time
        /\ DenotedTotal(JoinSteps(splitst.descending)) = half_time

\* A route of odd total whose halves are not whole minutes has been split.
C19_Witness ==
    /\ SplitDone
    /\ Len(route_str) >= 2
    /\ half_time % PerMinute = 1
    /\ TotalMinutes(splitst.ascending) = half_time
    /\ Len(splitst.descending) >= 2

\* ------------------------------------------------------------------------
\* Duration accounting of simplify_trip

\* Every duration text of the string is a whole number of minutes.
WholeMinutes(str) == \A j \in 1 .. Len(str) : str[j].dur.f = Absent

\* The minutes the segments of mode md denote.
DenotedOfMode(str, md) ==
    SumSeq([ j \in 1 .. Len(str) |->
                 IF str[j].mode = md THEN DenotedMinutes(str[j].dur) ELSE 0 ])

\* The interior walking segments preceded only by walking segments.
DroppedWalkingAt(segs) ==
    { p \in InteriorWalkingAt(segs) : AccumulatingAt(segs, p) = NoMode }

DroppedMinutes(segs) ==
    SumSeq([ p \in 1 .. Len(segs) |->
                 IF p \in DroppedWalkingAt(segs) THEN DenotedMinutes(segs[p].dur) ELSE 0 ])

\* C20: Duration accounting of simplify_trip on whole-minute routes: the
\* total duration of the output is the total duration of the input less the
\* durations of exactly the interior walking segments preceded only by
\* walking segments; the output total never exceeds the input total; and no
\* time of a non-walking segment is lost: each non-walking mode has at least
\* its own minutes in the output.
C20_DurationAccounting ==
    \A k \in Calls :
        LET segs == SegmentsOf(k)
            out  == simplified[k]
        IN  WholeMinutes(segs) =>
                /\ WholeMinutes(out)
                /\ DenotedTotal(out) = DenotedTotal(segs) - DroppedMinutes(segs)
                /\ DenotedTotal(out) <= DenotedTotal(segs)
                /\ \A md \in { segs[j].mode : j \in NonWalkingAt(segs) } :
                       DenotedOfMode(out, md) >= DenotedOfMode(segs, md)

\* A whole-minute route walking, walking, non-walking has been simplified:
\* the second walking segment, of positive duration, is in no output segment.
C20_Witness ==
    /\ Len(simplified) >= 1
    /\ Len(trip) = 3
    /\ WholeMinutes(trip)
    /\ FindSegments(trip) = trip
    /\ DroppedWalkingAt(trip) = {2}
    /\ NonWalkingAt(trip) = {3}
    /\ DenotedMinutes(trip[2].dur) > 0
    /\ DenotedTotal(simplified[1]) = DenotedTotal(trip) - DenotedMinutes(trip[2].dur)

\* ------------------------------------------------------------------------
\* Properties of the composition of split_route_in_half and
\* extract_transitions

AllPairs == { << from, to >> : from \in Modes, to \in Modes }

\* A segment of the route was split in two at the midpoint.
WasSplit == Len(splitst.ascending) + Len(splitst.descending) = Len(steps_with_minutes) + 1

\* The pair of modes at the boundary of the halves: the count of key in it.
SpanningCount(key) ==
    LET up   == ModesOfSegments(JoinSteps(splitst.ascending))
        down == ModesOfSegments(JoinSteps(splitst.descending))
    IN  IF up # <<>> /\ down # <<>> /\ key = << up[Len(up)], down[1] >> THEN 1 ELSE 0

\* C21: Composition of split_route_in_half and extract_transitions on one
\* route: every transition counted is a pair of adjacent modes within one
\* half, never across the halves; when a segment was split at the midpoint
\* the transitions of the two halves together are exactly the adjacent mode
\* pairs of the route (n - 1 for a route of n >= 2 segments); when the
\* midpoint fell on a boundary between two segments they are those pairs
\* less the pair spanning the boundary (n - 2).
C21_TransitionsOfHalves ==
    table_pc \in {"frames", "done"} =>
        LET modes == ModesOfSegments(route_str)
            up    == ModesOfSegments(JoinSteps(splitst.ascending))
            down  == ModesOfSegments(JoinSteps(splitst.descending))
            n     == Len(modes)
            both  == CounterTotal(ascending_transitions)
                         + CounterTotal(descending_transitions)
        IN  /\ DOMAIN ascending_transitions \subseteq AllPairs
            /\ DOMAIN descending_transitions \subseteq AllPairs
            /\ \A key \in AllPairs :
                   /\ CountOf(ascending_transitions, key) = PairCount(up, key)
                   /\ CountOf(descending_transitions, key) = PairCount(down, key)
                   /\ CountOf(ascending_transitions, key)
                          + CountOf(descending_transitions, key)
                          = PairCount(modes, key) - (IF WasSplit THEN 0 ELSE SpanningCount(key))
            /\ (n >= 2 /\ Len(route_str) = n) =>
                   /\ up # <<>> /\ down # <<>>
                   /\ WasSplit => both = n - 1
                   /\ ~WasSplit => both = n - 2

\* A route of three segments of three modes whose second segment was split
\* has gone through both stages: two transitions, one in each half.
C21_Witness ==
    /\ table_pc = "done"
    /\ Len(route_str) = 3
    /\ Len(ModesOfSegments(route_str)) = 3
    /\ WasSplit
    /\ Len(splitst.ascending) = 2
    /\ CounterTotal(ascending_transitions) = 1
    /\ CounterTotal(descending_transitions) = 1
    /\ route_str[1].mode # route_str[2].mode

\* A route of two segments of positive, equal durations: the midpoint is on
\* their boundary and no transition is counted.
C21_WitnessBoundary ==
    /\ table_pc = "done"
    /\ Len(route_str) = 2
    /\ Len(ModesOfSegments(route_str)) = 2
    /\ ~WasSplit
    /\ half_time > 0
    /\ ascending_transitions = EmptyCounter
    /\ descending_transitions = EmptyCounter
    /\ combined_df = <<>>

====
